---- MODULE Spec2Model ----
(***************************************************************************)
(* Model of the SUN4I power HAL (src/power/power_sun4i.c): the three       *)
(* module operations sun4i_power_init, sun4i_power_set_interactive and     *)
(* sun4i_power_hint, the helper boostpulse_open, the sysfs files they read *)
(* and write, and the module state (lock, boostpulse_fd,                   *)
(* boostpulse_warned, current_governor, scaling_max_freq).                 *)
(*                                                                         *)
(* C strings are sequences of one-character strings; LF and CR stand for   *)
(* '\n' and '\r', NUL for the terminating zero byte.                       *)
(***************************************************************************)
EXTENDS Integers, Sequences, FiniteSets, TLC

VARIABLES
    scaling_governor_file,  \* [readable, text]: the SCALING_GOVERNOR file
    scaling_max_freq_file,  \* text held by the SCALINGMAXFREQ file
    scaling_max_freq,       \* static char scaling_max_freq[MAX_BUF_SZ]
    current_governor,       \* static char current_governor[MAX_BUF_SZ]
    lock,                   \* sun4i->lock: the owning thread, or NoThread
    boostpulse_fd,          \* sun4i->boostpulse_fd
    boostpulse_warned,      \* sun4i->boostpulse_warned
    fdtable,                \* the process's descriptors: path, or Closed
    crashed,                \* the process was killed by a wild store
    pc,                     \* each thread's position in sun4i_power_hint
    governor,               \* boostpulse_open's local char governor[80]
    data,                   \* sun4i_power_hint's argument data
    buf,                    \* sun4i_power_hint's local char buf[80]
    len,                    \* sun4i_power_hint's local len
    last,                   \* what the last step did: its file operations
                            \* and accesses to the module's fields
    kept,                   \* which of the histories below are kept
    seen,                   \* history: log lines since boostpulse_warned was
                            \* last cleared
    tuning,                 \* history: governors tuned so far, whether the
                            \* governor file changed during a thread's call,
                            \* and whether the call has opened a handle
    opened_after            \* history: a handle was opened since the thread's
                            \* write failed (while it waits to recover)

vars == <<scaling_governor_file, scaling_max_freq_file, scaling_max_freq,
          current_governor, lock, boostpulse_fd, boostpulse_warned, fdtable,
          crashed, pc, governor, data, buf, len, last, kept, seen, tuning,
          opened_after>>

-----------------------------------------------------------------------------
(* Bounds of the model *)

NThreads == 2
MaxFds == 2
MaxDuration == 40
MaxLogs == 2
MaxTextLen == 3

(* Program constants *)

MAX_BUF_SZ == 20
GovernorBufSz == 80

Threads == 1..NThreads
NoThread == 0
Fds == 1..MaxFds
Closed == "closed"

LF == "LF"
CR == "CR"
NUL == "NUL"

SCALINGMAXFREQ == "/sys/devices/system/cpu/cpu0/cpufreq/scaling_max_freq"
SCALING_GOVERNOR == "/sys/devices/system/cpu/cpu0/cpufreq/scaling_governor"
BOOSTPULSE_INTERACTIVE == "/sys/devices/system/cpu/cpufreq/interactive/boostpulse"
BOOSTPULSE_ONDEMAND == "/sys/devices/system/cpu/cpufreq/ondemand/boostpulse"
BOOSTPULSE_MALI == "/sys/devices/platform/mali_dev.0/boostpulse"

screen_off_max_freq == <<"6", "9", "6", "0", "0", "0">>
InitialScalingMaxFreq == <<"1", "0", "0", "8", "0", "0", "0">>

Interactive == <<"i", "n", "t", "e", "r", "a", "c", "t", "i", "v", "e">>
Ondemand == <<"o", "n", "d", "e", "m", "a", "n", "d">>

-----------------------------------------------------------------------------
(* C string helpers *)

Take(s, n) == SubSeq(s, 1, IF n < Len(s) THEN (IF n < 0 THEN 0 ELSE n) ELSE Len(s))

\* The bytes strncmp looks at: at most n, and none after the terminating zero.
CBytes(s, n) == IF Len(s) >= n THEN Take(s, n) ELSE Append(s, NUL)

\* strncmp(a, b, n) == 0
StrnEq(a, b, n) == CBytes(a, n) = CBytes(b, n)

\* snprintf(buf, sizeof(buf), "%d", n)
Digit(d) == <<"0", "1", "2", "3", "4", "5", "6", "7", "8", "9">>[d + 1]

RECURSIVE DecNat(_)
DecNat(n) == IF n < 10 THEN <<Digit(n)>> ELSE Append(DecNat(n \div 10), Digit(n % 10))

Dec(n) == IF n < 0 THEN <<"-">> \o DecNat(0 - n) ELSE DecNat(n)

-----------------------------------------------------------------------------
(* What a step does: an event is one read, write, open, close or log line,  *)
(* or one access to a field of the module, with whether the thread held the *)
(* lock at that moment.                                                     *)

Ev(kind, path, val, held) == [kind |-> kind, path |-> path, val |-> val, locked |-> held]

IsWrite(e) == e.kind = "write"

WritesOf(evs) == SelectSeq(evs, IsWrite)

\* The frequency state a sun4i_power_set_interactive call started from, kept
\* with the record of the call.
Snapshot == [freq |-> scaling_max_freq, file |-> scaling_max_freq_file]

NoPre == [freq |-> <<>>, file |-> <<>>]

NoOff == [after |-> FALSE, file |-> <<>>, readok |-> FALSE, freq |-> <<>>]

\* The record of a step: the statement(s) run, the thread, whether the call
\* returned with this step, the call's arguments, and the step's events.
Step(op, t, returned, arg, d, evs, pre, off) ==
    [op |-> op, thread |-> t, returned |-> returned, arg |-> arg, data |-> d,
     len |-> 0, events |-> evs, pre |-> pre, off |-> off]

\* A whole call made in one step by the host.
Call(op, arg, d, evs, pre, off) == Step(op, NoThread, TRUE, arg, d, evs, pre, off)

NoCall == Step("none", NoThread, FALSE, 0, 0, <<>>, NoPre, NoOff)

\* Nothing logged.
NoneSeen == [open_logs |-> 0, governor_logs |-> 0]

\* Nothing tuned, no governor change during a call, no handle opened by it.
NoneTuned ==
    [tuned |-> {}, steady |-> [t \in 1..NThreads |-> TRUE],
     fresh |-> [t \in 1..NThreads |-> FALSE]]

\* The histories a behaviour may keep.
Histories == {"logs", "tuning", "opens"}

-----------------------------------------------------------------------------
(* sysfs helpers *)

\* sysfs_read(path, s, num_bytes): at most num_bytes - 1 bytes of the file, or
\* -1 and an error line.
sysfs_read(path, file, num_bytes, held) ==
    IF file.readable
    THEN [ok |-> TRUE, text |-> Take(file.text, num_bytes - 1),
          events |-> <<Ev("read", path, Take(file.text, num_bytes - 1), held)>>]
    ELSE [ok |-> FALSE, text |-> <<>>,
          events |-> <<Ev("log", path, <<>>, held)>>]

\* sysfs_write(path, s): one best-effort write; a failure is logged by the
\* helper and not reported to the caller.
sysfs_write(path, s, held) == <<Ev("write", path, s, held)>>

\* The trailing run of '\n' and '\r' removed (the loop of get_scaling_governor).
StripTrailingMutant(s) ==
    IF Len(s) > 0 /\ (s[Len(s)] = LF \/ s[Len(s)] = CR)
    THEN SubSeq(s, 1, Len(s) - 1)
    ELSE s

RECURSIVE StripTrailing(_)
StripTrailing(s) ==
    IF Len(s) > 0 /\ (s[Len(s)] = LF \/ s[Len(s)] = CR)
    THEN StripTrailing(SubSeq(s, 1, Len(s) - 1))
    ELSE s

get_scaling_governor(size, held) ==
    LET r == sysfs_read(SCALING_GOVERNOR, scaling_governor_file, size, held)
    IN  IF r.ok
        THEN [ok |-> TRUE, text |-> StripTrailing(r.text), events |-> r.events]
        ELSE r

-----------------------------------------------------------------------------
(* sun4i_power_init *)

\* strncmp(governor, name, sizeof(governor)) == 0
IsGovernorPrefixMutant(gov, name) == StrnEq(gov, name, Len(name))

IsGovernor(gov, name) == StrnEq(gov, name, GovernorBufSz)

InteractiveTuningMutant(held) ==
    sysfs_write("/sys/devices/system/cpu/cpufreq/interactive/timer_rate",
                Dec(20000), held)
    \o sysfs_write("/sys/devices/system/cpu/cpufreq/interactive/min_sample_time",
                Dec(60000), held)
    \o sysfs_write("/sys/devices/system/cpu/cpufreq/interactive/hispeed_freq",
                Dec(696000), held)
    \o sysfs_write("/sys/devices/system/cpu/cpufreq/interactive/go_hispeed_load",
                Dec(50), held)
    \o sysfs_write("/sys/devices/system/cpu/cpufreq/ondemand/sampling_rate",
                Dec(50000), held)

InteractiveTuning(held) ==
    sysfs_write("/sys/devices/system/cpu/cpufreq/interactive/timer_rate",
                Dec(20000), held)
    \o sysfs_write("/sys/devices/system/cpu/cpufreq/interactive/min_sample_time",
                Dec(60000), held)
    \o sysfs_write("/sys/devices/system/cpu/cpufreq/interactive/hispeed_freq",
                Dec(696000), held)
    \o sysfs_write("/sys/devices/system/cpu/cpufreq/interactive/go_hispeed_load",
                Dec(50), held)
    \o sysfs_write("/sys/devices/system/cpu/cpufreq/interactive/above_hispeed_delay",
                Dec(100000), held)

OndemandTuning(held) ==
    sysfs_write("/sys/devices/system/cpu/cpufreq/ondemand/boostfreq",
                Dec(696000), held)
    \o sysfs_write("/sys/devices/system/cpu/cpufreq/ondemand/up_threshold",
                Dec(70), held)
    \o sysfs_write("/sys/devices/system/cpu/cpufreq/ondemand/sampling_rate",
                Dec(50000), held)

MaliTuning(held) ==
    sysfs_write("/sys/module/mali/parameters/mali_boost_rate", Dec(1200), held)
    \o sysfs_write("/sys/module/mali/parameters/mali_boost_duration", Dec(500), held)

GovernorTuning(gov, held) ==
    IF IsGovernor(gov, Interactive) THEN InteractiveTuning(held)
    ELSE IF IsGovernor(gov, Ondemand) THEN OndemandTuning(held)
    ELSE <<>>

\* sun4i->boostpulse_warned = 1 through the pointer sun4i, which
\* sun4i_power_init declares and never sets: the store may land on the
\* module's flag, land elsewhere, or kill the process.
WildStore(held) ==
    { [warned |-> 1, crashed |-> FALSE,
       events |-> <<Ev("set_warned", "", 1, held)>>],
      [warned |-> boostpulse_warned, crashed |-> FALSE, events |-> <<>>],
      [warned |-> boostpulse_warned, crashed |-> TRUE, events |-> <<>>] }

\* The outcomes of one run of sun4i_power_init from the current state.
InitOutcomes(held) ==
    LET r == get_scaling_governor(GovernorBufSz, held)
    IN  IF ~r.ok
        THEN { [ok |-> FALSE, governor |-> current_governor, warned |-> w.warned,
                crashed |-> w.crashed,
                events |-> r.events \o <<Ev("log", "init", <<>>, held)>> \o w.events]
               : w \in WildStore(held) }
        ELSE { [ok |-> TRUE, governor |-> Take(r.text, MAX_BUF_SZ),
                warned |-> boostpulse_warned, crashed |-> FALSE,
                events |-> r.events
                           \o <<Ev("set_governor", "", Take(r.text, MAX_BUF_SZ), held)>>
                           \o GovernorTuning(r.text, held)
                           \o MaliTuning(held)] }

-----------------------------------------------------------------------------
(* The files' contents and the host's inputs *)

Inter == <<"i", "n", "t", "e", "r">>
InteractiveX == Interactive \o <<"x">>

\* Texts the kernel may show in scaling_governor.
GovernorTexts ==
    { Interactive \o <<LF>>, Ondemand \o <<LF>>, Inter \o <<LF>>,
      InteractiveX \o <<LF>>, <<LF>> }

GovernorFiles ==
    [readable : {TRUE}, text : GovernorTexts]
    \cup {[readable |-> FALSE, text |-> <<>>]}

Freq1008 == InitialScalingMaxFreq \o <<LF>>
Freq912 == <<"9", "1", "2", "0", "0", "0", LF>>
Freq696 == screen_off_max_freq \o <<LF>>

\* Texts the kernel may show in scaling_max_freq.
FreqTexts == {Freq1008, Freq912, Freq696}

Hints == {"INTERACTION", "CPU_BOOST", "VSYNC", "OTHER"}
BoostHints == {"INTERACTION", "CPU_BOOST"}

\* data: NULL (0) or a duration
DataVals == {0, MaxDuration}

\* strerror_r(errno, buf, sizeof(buf)): the text of an error message
StrError == <<"E", "r", "r", "o", "r">>

-----------------------------------------------------------------------------
(* Init: the state of HAL_MODULE_INFO_SYM and of the statics at load time *)

Init ==
    /\ scaling_governor_file \in GovernorFiles
    /\ scaling_max_freq_file \in FreqTexts
    /\ scaling_max_freq = InitialScalingMaxFreq
    /\ current_governor = <<>>
    /\ lock = NoThread
    /\ boostpulse_fd = -1
    /\ boostpulse_warned = 0
    /\ fdtable = [f \in Fds |-> Closed]
    /\ crashed = FALSE
    /\ pc = [t \in Threads |-> "idle"]
    /\ governor = [t \in Threads |-> <<>>]
    /\ data = [t \in Threads |-> 0]
    /\ buf = [t \in Threads |-> <<>>]
    /\ len = [t \in Threads |-> 0]
    /\ last = NoCall
    /\ kept \in SUBSET Histories
    /\ seen = NoneSeen
    /\ tuning = NoneTuned
    /\ opened_after = [t \in Threads |-> FALSE]

moduleVars == <<lock, boostpulse_fd, boostpulse_warned, fdtable>>
threadVars == <<pc, governor, data, buf, len>>
freqVars == <<scaling_max_freq_file, scaling_max_freq>>

-----------------------------------------------------------------------------
(* History of a behaviour: what the steps so far have logged and written.   *)
(* The history variables are written by History only and read by no action: *)
(* every action ends with it.                                               *)

\* The number of log lines of one kind among the events.
LogCount(evs, what) ==
    Cardinality({i \in 1..Len(evs) : evs[i].kind = "log" /\ evs[i].path = what})

\* The events clear boostpulse_warned.
ClearsWarned(evs) ==
    \E i \in 1..Len(evs) : evs[i].kind = "set_warned" /\ evs[i].val = 0

\* A count of log lines, counted up to MaxLogs.
Counted(n) == IF n > MaxLogs THEN MaxLogs ELSE n

\* The governors whose tuning files the events write, all of them.
TunedBy(evs) ==
    LET written == {evs[i].path : i \in {j \in 1..Len(evs) : evs[j].kind = "write"}}
        files(ws) == {ws[i].path : i \in 1..Len(ws)}
    IN  (IF files(InteractiveTuning(FALSE)) \subseteq written THEN {Interactive} ELSE {})
        \cup (IF files(OndemandTuning(FALSE)) \subseteq written THEN {Ondemand} ELSE {})

\* The step just taken, added to the history of log lines.
ObserveLogs ==
    [open_logs |->
         IF ClearsWarned(last'.events) THEN 0
         ELSE Counted(seen.open_logs + LogCount(last'.events, "boostpulse")),
     governor_logs |->
         IF ClearsWarned(last'.events) THEN 0
         ELSE Counted(seen.governor_logs + LogCount(last'.events, "governor"))]

\* The step just taken, added to the history of tuning writes, of changes of
\* the governor file during a call, and of the handles opened by a call.
ObserveTuning ==
    [tuned |-> tuning.tuned \cup TunedBy(last'.events),
     steady |->
         [t \in Threads |->
             IF pc'[t] = "idle" \/ pc[t] = "idle" THEN TRUE
             ELSE tuning.steady[t] /\ scaling_governor_file' = scaling_governor_file],
     fresh |->
         [t \in Threads |->
             /\ pc'[t] # "idle"
             /\ \/ tuning.fresh[t]
                \/ last'.op = "open" /\ last'.thread = t /\ boostpulse_fd' >= 0]]

\* The step just taken, added to the history of opens: a thread whose write
\* failed waits in "lock" and "close"; a handle opened meanwhile is noted.
ObserveOpens ==
    [t \in Threads |->
        /\ pc'[t] \in {"lock", "close"}
        /\ pc[t] \in {"lock", "close"}
        /\ \/ opened_after[t]
           \/ last'.op = "open" /\ boostpulse_fd' >= 0]

History ==
    /\ kept' = kept
    /\ seen' = IF "logs" \in kept THEN ObserveLogs ELSE seen
    /\ tuning' = IF "tuning" \in kept THEN ObserveTuning ELSE tuning
    /\ opened_after' = IF "opens" \in kept THEN ObserveOpens ELSE opened_after

-----------------------------------------------------------------------------
(* The environment: the kernel or another process changes a file *)

GovernorChanges(files) ==
    /\ ~crashed
    /\ \E f \in files \ {scaling_governor_file} :
           scaling_governor_file' = f
    /\ last' = NoCall
    /\ UNCHANGED <<freqVars, current_governor, moduleVars, crashed, threadVars>>
    /\ History

MaxFreqChanges ==
    /\ ~crashed
    /\ \E f \in FreqTexts \ {scaling_max_freq_file} :
           scaling_max_freq_file' = f
    /\ last' = NoCall
    /\ UNCHANGED <<scaling_governor_file, scaling_max_freq, current_governor,
                   moduleVars, crashed, threadVars>>
    /\ History

-----------------------------------------------------------------------------
(* sun4i_power_init called by the host *)

PowerInit ==
    /\ ~crashed
    /\ \E o \in InitOutcomes(FALSE) :
           /\ current_governor' = o.governor
           /\ boostpulse_warned' = o.warned
           /\ crashed' = o.crashed
           /\ last' = Call("init", 0, 0, o.events, NoPre, NoOff)
    /\ UNCHANGED <<scaling_governor_file, freqVars, lock, boostpulse_fd, fdtable,
                   threadVars>>
    /\ History

-----------------------------------------------------------------------------
(* sun4i_power_set_interactive *)

\* strncmp(buf, screen_off_max_freq, strlen(screen_off_max_freq)) == 0
IsScreenOffFreqMutant(text) == StrnEq(text, screen_off_max_freq, MAX_BUF_SZ)

IsScreenOffFreq(text) == StrnEq(text, screen_off_max_freq, Len(screen_off_max_freq))

\* if (len != -1 && strncmp(...) != 0) memcpy(scaling_max_freq, buf, sizeof(buf)):
\* the restore frequency after the screen-off branch has read r.
CachedAfterOffMutant(r) ==
    IF ~IsScreenOffFreq(r.text) THEN r.text ELSE scaling_max_freq

CachedAfterOff(r) ==
    IF r.ok /\ ~IsScreenOffFreq(r.text) THEN r.text ELSE scaling_max_freq

\* The record of the screen-off call that returned in the last step, if any.
OffBefore ==
    IF last.op = "set_interactive" /\ last.arg = 0
    THEN [after |-> TRUE, file |-> last.pre.file,
          readok |-> (\E i \in 1..Len(last.events) : last.events[i].kind = "read"),
          freq |-> last.pre.freq]
    ELSE NoOff

SetInteractiveOff ==
    /\ ~crashed
    /\ \E rok \in BOOLEAN, wok \in BOOLEAN :
         LET r == sysfs_read(SCALINGMAXFREQ,
                             [readable |-> rok, text |-> scaling_max_freq_file],
                             MAX_BUF_SZ, FALSE)
         IN  /\ scaling_max_freq' = CachedAfterOff(r)
             /\ scaling_max_freq_file' =
                    IF wok THEN screen_off_max_freq ELSE scaling_max_freq_file
             /\ last' = Call("set_interactive", 0, 0,
                             r.events \o sysfs_write(SCALINGMAXFREQ, screen_off_max_freq, FALSE),
                             Snapshot, OffBefore)
    /\ UNCHANGED <<scaling_governor_file, current_governor, moduleVars, crashed,
                   threadVars>>
    /\ History

\* The screen-on branch: sysfs_write(SCALINGMAXFREQ, scaling_max_freq) only.
SetInteractiveOnMutant ==
    /\ ~crashed
    /\ \E rok \in BOOLEAN, wok \in BOOLEAN :
         LET r == sysfs_read(SCALINGMAXFREQ,
                             [readable |-> rok, text |-> scaling_max_freq_file],
                             MAX_BUF_SZ, FALSE)
         IN  /\ scaling_max_freq' = CachedAfterOff(r)
             /\ scaling_max_freq_file' =
                    IF wok THEN CachedAfterOff(r) ELSE scaling_max_freq_file
             /\ last' = Call("set_interactive", 1, 0,
                             r.events \o sysfs_write(SCALINGMAXFREQ, CachedAfterOff(r), FALSE),
                             Snapshot, OffBefore)
    /\ UNCHANGED <<scaling_governor_file, current_governor, moduleVars, crashed,
                   threadVars>>
    /\ History

SetInteractiveOn ==
    /\ ~crashed
    /\ \E wok \in BOOLEAN :
           scaling_max_freq_file' =
               IF wok THEN scaling_max_freq ELSE scaling_max_freq_file
    /\ last' = Call("set_interactive", 1, 0,
                    sysfs_write(SCALINGMAXFREQ, scaling_max_freq, FALSE),
                    Snapshot, OffBefore)
    /\ UNCHANGED <<scaling_governor_file, scaling_max_freq, current_governor,
                   moduleVars, crashed, threadVars>>
    /\ History

-----------------------------------------------------------------------------
(* sun4i_power_hint and boostpulse_open, statement by statement *)

Held(t) == lock = t

\* pthread_mutex_lock(&sun4i->lock) returns once the mutex is free
LockFreeMutant == TRUE

LockFree == lock = NoThread

\* open(path, O_WRONLY): the lowest free descriptor, or -1
OpenResults ==
    {-1} \cup (IF \E f \in Fds : fdtable[f] = Closed
               THEN {CHOOSE f \in Fds : /\ fdtable[f] = Closed
                                        /\ \A g \in Fds : fdtable[g] = Closed => f <= g}
               ELSE {})

\* close(fd)
CloseFd(fd) == IF fd \in Fds THEN [fdtable EXCEPT ![fd] = Closed] ELSE fdtable

\* The boost-pulse file boostpulse_open opens for a governor, "" for none.
BoostpulsePathMutant(gov) ==
    IF IsGovernor(gov, Interactive) THEN BOOSTPULSE_INTERACTIVE
    ELSE IF IsGovernor(gov, Ondemand) THEN BOOSTPULSE_INTERACTIVE
    ELSE ""

BoostpulsePath(gov) ==
    IF IsGovernor(gov, Interactive) THEN BOOSTPULSE_INTERACTIVE
    ELSE IF IsGovernor(gov, Ondemand) THEN BOOSTPULSE_ONDEMAND
    ELSE ""

\* strncmp(governor, current_governor, strlen(governor)) != 0
GovernorChanged(gov) == ~StrnEq(gov, current_governor, Len(gov))

Goto(t, to) == pc' = [pc EXCEPT ![t] = to]

\* What a step of thread t inside a call did.
Did(t, op, evs) ==
    last' = Step(op, t, FALSE, "INTERACTION", data[t], evs, NoPre, NoOff)

\* The call of thread t returns with this step.
Returns(t, op, evs) ==
    /\ last' = [Step(op, t, TRUE, "INTERACTION", data[t], evs, NoPre, NoOff)
                EXCEPT !.len = len[t]]
    /\ pc' = [pc EXCEPT ![t] = "idle"]
    /\ governor' = [governor EXCEPT ![t] = <<>>]
    /\ data' = [data EXCEPT ![t] = 0]
    /\ buf' = [buf EXCEPT ![t] = <<>>]
    /\ len' = [len EXCEPT ![t] = 0]

\* case POWER_HINT_INTERACTION: case POWER_HINT_CPU_BOOST:
IsBoostHintMutant(hint) == hint \in BoostHints \cup {"VSYNC"}

IsBoostHint(hint) == hint \in BoostHints

\* switch (hint): the boost hints go on to boostpulse_open, the others return.
\* A boost hint reads its argument data in one place, before the write: the
\* caller's value is drawn there.
PowerHint(t) ==
    /\ ~crashed
    /\ pc[t] = "idle"
    /\ \E hint \in Hints :
         IF IsBoostHint(hint)
         THEN /\ Goto(t, "boostpulse_open")
              /\ last' = Step("power_hint", t, FALSE, hint, 0, <<>>, NoPre, NoOff)
              /\ UNCHANGED <<governor, data, buf, len>>
         ELSE /\ \E d \in DataVals :
                    last' = Step("power_hint", t, TRUE, hint, d, <<>>, NoPre, NoOff)
              /\ UNCHANGED threadVars
    /\ UNCHANGED <<scaling_governor_file, freqVars, current_governor, moduleVars,
                   crashed>>
    /\ History

\* boostpulse_open: lock, test boostpulse_fd, read the governor
BoostpulseOpenEnter(t) ==
    /\ ~crashed
    /\ pc[t] = "boostpulse_open"
    /\ LockFree
    /\ lock' = t
    /\ IF boostpulse_fd >= 0
       THEN /\ Did(t, "enter", <<Ev("get_fd", "", boostpulse_fd, TRUE)>>)
            /\ Goto(t, "unlock")
            /\ UNCHANGED <<boostpulse_warned, governor>>
       ELSE LET r == get_scaling_governor(GovernorBufSz, TRUE)
            IN  IF r.ok
                THEN /\ Did(t, "enter", <<Ev("get_fd", "", boostpulse_fd, TRUE)>>
                                        \o r.events)
                     /\ governor' = [governor EXCEPT ![t] = r.text]
                     /\ Goto(t, "retune")
                     /\ UNCHANGED boostpulse_warned
                ELSE /\ Did(t, "enter", <<Ev("get_fd", "", boostpulse_fd, TRUE)>>
                                        \o r.events
                                        \o <<Ev("log", "governor", <<>>, TRUE),
                                             Ev("set_warned", "", 1, TRUE)>>)
                     /\ boostpulse_warned' = 1
                     /\ Goto(t, "unlock")
                     /\ UNCHANGED governor
    /\ UNCHANGED <<scaling_governor_file, freqVars, current_governor, boostpulse_fd,
                   fdtable, crashed, data, buf, len>>
    /\ History

\* boostpulse_open: sun4i_power_init when the governor read differs from the
\* cached one
BoostpulseOpenRetune(t) ==
    /\ ~crashed
    /\ pc[t] = "retune"
    /\ IF GovernorChanged(governor[t])
       THEN \E o \in InitOutcomes(Held(t)) :
                /\ current_governor' = o.governor
                /\ boostpulse_warned' = o.warned
                /\ crashed' = o.crashed
                /\ Did(t, "retune", <<Ev("init", "", <<>>, Held(t))>> \o o.events)
       ELSE /\ Did(t, "retune", <<>>)
            /\ UNCHANGED <<current_governor, boostpulse_warned, crashed>>
    /\ Goto(t, "open")
    /\ UNCHANGED <<scaling_governor_file, freqVars, lock, boostpulse_fd, fdtable,
                   governor, data, buf, len>>
    /\ History

\* if (sun4i->boostpulse_fd < 0 && !sun4i->boostpulse_warned)
ShouldWarnMutant(fd) == fd < 0

ShouldWarn(fd) == fd < 0 /\ boostpulse_warned = 0

\* boostpulse_open: open the governor's boost-pulse file, warn once
BoostpulseOpenOpen(t) ==
    /\ ~crashed
    /\ pc[t] = "open"
    /\ LET path == BoostpulsePath(governor[t])
       IN  \E fd \in (IF path = "" THEN {boostpulse_fd} ELSE OpenResults) :
             LET opened == IF path = "" THEN <<>>
                           ELSE <<Ev("open", path, fd, Held(t)),
                                  Ev("set_fd", "", fd, Held(t))>>
                 warn == IF ShouldWarn(fd)
                         THEN <<Ev("log", "boostpulse", <<>>, Held(t)),
                                Ev("set_warned", "", 1, Held(t))>>
                         ELSE <<>>
             IN  /\ boostpulse_fd' = fd
                 /\ fdtable' = IF path # "" /\ fd \in Fds
                               THEN [fdtable EXCEPT ![fd] = path] ELSE fdtable
                 /\ boostpulse_warned' =
                        IF ShouldWarn(fd) THEN 1 ELSE boostpulse_warned
                 /\ Did(t, "open", opened
                                   \o <<Ev("get_fd", "", fd, Held(t)),
                                        Ev("get_warned", "", boostpulse_warned, Held(t))>>
                                   \o warn)
    /\ governor' = [governor EXCEPT ![t] = <<>>]
    /\ Goto(t, "unlock")
    /\ UNCHANGED <<scaling_governor_file, freqVars, current_governor, lock, crashed,
                   data, buf, len>>
    /\ History

\* boostpulse_open: pthread_mutex_unlock
BoostpulseOpenUnlock(t) ==
    /\ ~crashed
    /\ pc[t] = "unlock"
    /\ lock' = NoThread
    /\ Goto(t, "return")
    /\ Did(t, "unlock", <<>>)
    /\ UNCHANGED <<scaling_governor_file, freqVars, current_governor, boostpulse_fd,
                   boostpulse_warned, fdtable, crashed, governor, data, buf, len>>
    /\ History

\* if (boostpulse_open(sun4i) >= 0)
GotHandleMutant(fd) == fd # 0

GotHandle(fd) == fd >= 0

\* boostpulse_open: return sun4i->boostpulse_fd, and the caller's test of it
BoostpulseOpenReturn(t) ==
    /\ ~crashed
    /\ pc[t] = "return"
    /\ IF GotHandle(boostpulse_fd)
       THEN /\ Did(t, "return", <<Ev("get_fd", "", boostpulse_fd, Held(t))>>)
            /\ Goto(t, "write")
            /\ UNCHANGED <<governor, data, buf, len>>
       ELSE Returns(t, "return", <<Ev("get_fd", "", boostpulse_fd, Held(t))>>)
    /\ UNCHANGED <<scaling_governor_file, freqVars, current_governor, moduleVars,
                   crashed>>
    /\ History

\* sun4i_power_hint: format the duration and write it to sun4i->boostpulse_fd;
\* on failure buf receives the error text
BoostWrite(t) ==
    /\ ~crashed
    /\ pc[t] = "write"
    /\ \E d \in DataVals :
       LET duration == IF d # 0 THEN d ELSE 1
           fd == boostpulse_fd
           valid == fd \in Fds /\ fdtable[fd] # Closed
       IN  \E ok \in (IF valid THEN BOOLEAN ELSE {FALSE}) :
             /\ data' = [data EXCEPT ![t] = d]
             /\ last' = Step("write", t, FALSE, "INTERACTION", d,
                    <<Ev("get_fd", "", fd, Held(t)),
                      Ev(IF ok THEN "write" ELSE "write_failed",
                         IF valid THEN fdtable[fd] ELSE "", Dec(duration), Held(t))>>
                    \o (IF ok THEN <<>> ELSE <<Ev("log", "write", <<>>, Held(t))>>),
                    NoPre, NoOff)
             /\ buf' = [buf EXCEPT ![t] = IF ok THEN Dec(duration) ELSE StrError]
             /\ len' = [len EXCEPT ![t] = IF ok THEN Len(Dec(duration)) ELSE -1]
             /\ Goto(t, IF ok THEN "mali" ELSE "lock")
    /\ UNCHANGED <<scaling_governor_file, freqVars, current_governor, moduleVars,
                   crashed, governor>>
    /\ History

\* sun4i_power_hint: pthread_mutex_lock after a failed write
RecoverLock(t) ==
    /\ ~crashed
    /\ pc[t] = "lock"
    /\ LockFree
    /\ lock' = t
    /\ Goto(t, "close")
    /\ Did(t, "lock", <<>>)
    /\ UNCHANGED <<scaling_governor_file, freqVars, current_governor, boostpulse_fd,
                   boostpulse_warned, fdtable, crashed, governor, data, buf, len>>
    /\ History

\* sun4i_power_hint: close and invalidate the handle, clear the flag, unlock
RecoverCloseMutant(t) ==
    /\ ~crashed
    /\ pc[t] = "close"
    /\ fdtable' = CloseFd(boostpulse_fd)
    /\ boostpulse_warned' = 0
    /\ Did(t, "close", <<Ev("get_fd", "", boostpulse_fd, Held(t)),
                         Ev("close", "", boostpulse_fd, Held(t)),
                         Ev("set_warned", "", 0, Held(t))>>)
    /\ lock' = NoThread
    /\ Goto(t, "mali")
    /\ UNCHANGED <<scaling_governor_file, freqVars, current_governor, crashed,
                   governor, data, buf, len, boostpulse_fd>>
    /\ History

RecoverClose(t) ==
    /\ ~crashed
    /\ pc[t] = "close"
    /\ fdtable' = CloseFd(boostpulse_fd)
    /\ boostpulse_fd' = -1
    /\ boostpulse_warned' = 0
    /\ Did(t, "close", <<Ev("get_fd", "", boostpulse_fd, Held(t)),
                         Ev("close", "", boostpulse_fd, Held(t)),
                         Ev("set_fd", "", -1, Held(t)),
                         Ev("set_warned", "", 0, Held(t))>>)
    /\ lock' = NoThread
    /\ Goto(t, "mali")
    /\ UNCHANGED <<scaling_governor_file, freqVars, current_governor, crashed,
                   governor, data, buf, len>>
    /\ History

\* sun4i_power_hint: sysfs_write(BOOSTPULSE_MALI, buf), and return
MaliWrite(t) ==
    /\ ~crashed
    /\ pc[t] = "mali"
    /\ Returns(t, "mali", sysfs_write(BOOSTPULSE_MALI, buf[t], Held(t)))
    /\ UNCHANGED <<scaling_governor_file, freqVars, current_governor, moduleVars,
                   crashed>>
    /\ History

-----------------------------------------------------------------------------

\* The steps of a sun4i_power_hint call on thread t.
HintStep(t) ==
    \/ PowerHint(t)
    \/ BoostpulseOpenEnter(t)
    \/ BoostpulseOpenRetune(t)
    \/ BoostpulseOpenOpen(t)
    \/ BoostpulseOpenUnlock(t)
    \/ BoostpulseOpenReturn(t)
    \/ BoostWrite(t)
    \/ RecoverLock(t)
    \/ RecoverClose(t)
    \/ MaliWrite(t)

\* The whole module: every operation, from any thread, and the environment.
Next ==
    \/ GovernorChanges(GovernorFiles)
    \/ MaxFreqChanges
    \/ PowerInit
    \/ SetInteractiveOff
    \/ SetInteractiveOn
    \/ \E t \in Threads : HintStep(t)

Spec == Init /\ [][Next]_vars

(* sun4i_power_set_interactive reads and writes scaling_max_freq_file and     *)
(* scaling_max_freq only, and no other operation touches these two: the      *)
(* frequency side and the boost side are checked apart, each under its own   *)
(* specification.                                                            *)

\* The boost side never reads scaling_max_freq: one content of that file is enough.
InitSeq == Init /\ scaling_max_freq_file = Freq1008 /\ kept = {}

\* Concurrent power hints, sun4i_power_init and a governor that changes between
\* the two governors with a boost-pulse file, a governor without one, and an
\* unreadable file.
BoostGovernorFiles ==
    {f \in GovernorFiles :
        f.readable => f.text \in {Interactive \o <<LF>>, Ondemand \o <<LF>>, <<LF>>}}

NextBoost ==
    \/ GovernorChanges(BoostGovernorFiles)
    \/ PowerInit
    \/ \E t \in Threads : HintStep(t)

InitBoost == InitSeq /\ scaling_governor_file \in BoostGovernorFiles

SpecBoost == InitBoost /\ [][NextBoost]_vars

\* The same with one calling thread: calls follow one another.
Caller == CHOOSE t \in Threads : \A u \in Threads : t <= u

NextSeq ==
    \/ GovernorChanges(GovernorFiles)
    \/ (pc[Caller] = "idle" /\ PowerInit)
    \/ HintStep(Caller)

SpecSeq == InitSeq /\ [][NextSeq]_vars

\* Governor texts of every shape: all the texts of up to MaxTextLen characters
\* among a letter, '\n' and '\r', and "interactive" followed by such a text.
RECURSIVE TextsOfLen(_)
TextsOfLen(n) ==
    IF n = 0 THEN {<<>>}
    ELSE {Append(s, c) : s \in TextsOfLen(n - 1), c \in {"o", LF, CR}}

ShortTexts == UNION {TextsOfLen(n) : n \in 0..MaxTextLen}

StripGovernorFiles ==
    [readable : {TRUE}, text : ShortTexts \cup {Interactive \o s : s \in ShortTexts}]

\* get_scaling_governor applied to each of these texts, by calls that follow
\* one another on a governor file that does not change.
InitStrip ==
    /\ scaling_governor_file \in StripGovernorFiles
    /\ scaling_max_freq_file = Freq1008
    /\ scaling_max_freq = InitialScalingMaxFreq
    /\ current_governor = <<>>
    /\ lock = NoThread
    /\ boostpulse_fd = -1
    /\ boostpulse_warned = 0
    /\ fdtable = [f \in Fds |-> Closed]
    /\ crashed = FALSE
    /\ pc = [t \in Threads |-> "idle"]
    /\ governor = [t \in Threads |-> <<>>]
    /\ data = [t \in Threads |-> 0]
    /\ buf = [t \in Threads |-> <<>>]
    /\ len = [t \in Threads |-> 0]
    /\ last = NoCall
    /\ kept = {}
    /\ seen = NoneSeen
    /\ tuning = NoneTuned
    /\ opened_after = [t \in Threads |-> FALSE]

NextStrip == HintStep(Caller)

SpecStrip == InitStrip /\ [][NextStrip]_vars

\* Concurrent power hints under fair scheduling: a thread inside a call goes on
\* running, and a thread waiting for the mutex gets it if it is free again and
\* again. The governor file comes and goes.
LiveGovernorFiles ==
    {f \in GovernorFiles : f.readable => f.text = Interactive \o <<LF>>}

InitLive == InitSeq /\ scaling_governor_file \in LiveGovernorFiles

NextLive ==
    \/ GovernorChanges(LiveGovernorFiles)
    \/ \E t \in Threads : HintStep(t)

\* A step of the call thread t is in.
CallStep(t) == pc[t] # "idle" /\ HintStep(t)

Fairness ==
    \A t \in Threads :
        /\ WF_vars(CallStep(t))
        /\ SF_vars(BoostpulseOpenEnter(t))
        /\ SF_vars(RecoverLock(t))

SpecLive == InitLive /\ [][NextLive]_vars /\ Fairness

\* Screen-off and screen-on transitions while power hints are in progress.
NextFrame ==
    \/ HintStep(Caller)
    \/ SetInteractiveOff
    \/ SetInteractiveOn

SpecFrame == InitSeq /\ [][NextFrame]_vars

\* Concurrent power hints under the "interactive" governor, with the history
\* of opens kept.
InitRace ==
    /\ Init
    /\ scaling_governor_file = [readable |-> TRUE, text |-> Interactive \o <<LF>>]
    /\ scaling_max_freq_file = Freq1008
    /\ kept = {"opens"}

NextRace == \E t \in Threads : HintStep(t)

SpecRace == InitRace /\ [][NextRace]_vars

\* The same, with the history of log lines kept.
InitLog == Init /\ scaling_max_freq_file = Freq1008 /\ kept = {"logs"}

SpecLog == InitLog /\ [][NextSeq]_vars

\* Calls that follow one another while the governor is switched between
\* "interactive" and "ondemand", with the history of tuning writes kept.
SwitchGovernorFiles ==
    [readable : {TRUE}, text : {Interactive \o <<LF>>, Ondemand \o <<LF>>}]

InitSwitch ==
    /\ Init
    /\ scaling_governor_file \in SwitchGovernorFiles
    /\ scaling_max_freq_file = Freq1008
    /\ kept = {"tuning"}

NextSwitch ==
    \/ GovernorChanges(SwitchGovernorFiles)
    \/ (pc[Caller] = "idle" /\ PowerInit)
    \/ HintStep(Caller)

SpecSwitch == InitSwitch /\ [][NextSwitch]_vars

\* Screen-off and screen-on transitions and a changing scaling_max_freq file.
NextFreq ==
    \/ MaxFreqChanges
    \/ SetInteractiveOff
    \/ SetInteractiveOn

\* The frequency side never reads scaling_governor: one content is enough.
InitFreq ==
    /\ Init
    /\ scaling_governor_file = [readable |-> TRUE, text |-> Interactive \o <<LF>>]
    /\ kept = {}

SpecFreq == InitFreq /\ [][NextFreq]_vars

-----------------------------------------------------------------------------
(* Properties *)

OpenHandles == {f \in Fds : fdtable[f] # Closed}

HasEvent(evs, kind) == \E i \in 1..Len(evs) : evs[i].kind = kind

\* text begins with prefix
BeginsWith(text, prefix) ==
    /\ Len(text) >= Len(prefix)
    /\ SubSeq(text, 1, Len(prefix)) = prefix

\* C1: under any interleaving of boost hints from several threads, failing
\* writes and their close-and-invalidate recovery included, at most one
\* boost-pulse handle is open and not yet closed.
C1_AtMostOneOpenHandle == Cardinality(OpenHandles) <= 1

\* A fresh handle has just been opened while another thread, whose write
\* failed, waits for the lock to run its recovery.
C1_Witness ==
    /\ last.op = "open"
    /\ Cardinality(OpenHandles) = 1
    /\ \E u \in Threads \ {last.thread} : pc[u] = "lock"

\* C2 (calls following one another): when a call whose boost-pulse write failed
\* returns, boostpulse_fd is -1, no handle is open and boostpulse_warned is 0;
\* the handle becomes valid again only by a fresh open; and the next call,
\* finding no handle, reads the governor file again and calls open on the
\* boost-pulse file of the governor it read (when that is "interactive" or
\* "ondemand").
C2_ReturnedInvalidated ==
    (last.returned /\ last.op = "mali" /\ last.len < 0)
        => /\ boostpulse_fd = -1
           /\ OpenHandles = {}
           /\ boostpulse_warned = 0

C2_FreshOpenStep ==
    /\ (boostpulse_fd = -1 /\ boostpulse_fd' # -1)
           => /\ last'.op = "open"
              /\ HasEvent(last'.events, "open")
              /\ boostpulse_fd' \notin OpenHandles
    /\ \A t \in Threads :
           (pc[t] = "boostpulse_open" /\ pc'[t] # "boostpulse_open" /\ boostpulse_fd = -1)
               => /\ \E i \in 1..Len(last'.events) :
                         last'.events[i].path = SCALING_GOVERNOR
                  /\ pc'[t] \in {"retune", "unlock"}
    /\ \A t \in Threads :
           (pc[t] = "open" /\ pc'[t] # "open"
            /\ governor[t] \in {Interactive, Ondemand})
               => HasEvent(last'.events, "open")

C2_InvalidatedAndReopened == []C2_ReturnedInvalidated /\ [][C2_FreshOpenStep]_vars

\* A call whose write failed has returned.
C2_Witness == last.returned /\ last.op = "mali" /\ last.len < 0

\* C3 as stated: whatever the file held before setInteractive(false), V, the
\* setInteractive(true) that follows writes V.
C3_WritesBackWhatWasThere ==
    (last.op = "set_interactive" /\ last.arg = 1 /\ last.off.after)
        => /\ Len(last.events) = 1
           /\ last.events[1].kind = "write"
           /\ last.events[1].path = SCALINGMAXFREQ
           /\ last.events[1].val = last.off.file

\* C3 amended: V is written back when it was read and does not begin with the
\* screen-off frequency; otherwise the restore frequency cached before the
\* screen-off call is written.
C3_WritesBackUnlessScreenOff ==
    (last.op = "set_interactive" /\ last.arg = 1 /\ last.off.after)
        => /\ Len(last.events) = 1
           /\ last.events[1].kind = "write"
           /\ last.events[1].path = SCALINGMAXFREQ
           /\ last.events[1].val =
                  IF last.off.readok /\ ~BeginsWith(last.off.file, screen_off_max_freq)
                  THEN last.off.file
                  ELSE last.off.freq

\* Screen-off then screen-on, from a file holding a frequency that is neither
\* the screen-off one nor the cached one.
C3_Witness ==
    /\ last.op = "set_interactive" /\ last.arg = 1 /\ last.off.after
    /\ last.off.readok
    /\ last.off.file = Freq912
    /\ last.off.freq # Freq912

\* The text is the screen-off frequency, with or without its newline.
IsScreenOffValue(text) ==
    text = screen_off_max_freq \/ text = Append(screen_off_max_freq, LF)

\* C4: the cached restore frequency is never the screen-off frequency, and a
\* setInteractive(false) that finds the screen-off frequency in the file
\* leaves the cached restore frequency as it was.
C4_RestoreNeverScreenOff ==
    /\ ~IsScreenOffValue(scaling_max_freq)
    /\ (last.op = "set_interactive" /\ last.arg = 0 /\ IsScreenOffValue(last.pre.file))
           => scaling_max_freq = last.pre.freq

\* A second setInteractive(false) in a row read the screen-off frequency the
\* first one wrote, after the first one had cached another frequency.
C4_Witness ==
    /\ last.op = "set_interactive" /\ last.arg = 0
    /\ last.off.after /\ last.off.readok
    /\ last.pre.file = screen_off_max_freq
    /\ HasEvent(last.events, "read")
    /\ scaling_max_freq = Freq912

\* The files written by the events, each with the text written.
WrittenPairs(evs) ==
    {<<evs[i].path, evs[i].val>> : i \in {j \in 1..Len(evs) : evs[j].kind = "write"}}

\* The governor name a run of sun4i_power_init got from the file, <<NUL>> if
\* it could not read it.
InitGovernorRead(evs) ==
    IF \E i \in 1..Len(evs) : evs[i].kind = "read" /\ evs[i].path = SCALING_GOVERNOR
    THEN LET i == CHOOSE j \in 1..Len(evs) :
                      evs[j].kind = "read" /\ evs[j].path = SCALING_GOVERNOR
         IN  StripTrailing(evs[i].val)
    ELSE <<NUL>>

InteractiveTuningFiles ==
    { <<"/sys/devices/system/cpu/cpufreq/interactive/timer_rate",
        <<"2", "0", "0", "0", "0">> >>,
      <<"/sys/devices/system/cpu/cpufreq/interactive/min_sample_time",
        <<"6", "0", "0", "0", "0">> >>,
      <<"/sys/devices/system/cpu/cpufreq/interactive/hispeed_freq",
        <<"6", "9", "6", "0", "0", "0">> >>,
      <<"/sys/devices/system/cpu/cpufreq/interactive/go_hispeed_load",
        <<"5", "0">> >>,
      <<"/sys/devices/system/cpu/cpufreq/interactive/above_hispeed_delay",
        <<"1", "0", "0", "0", "0", "0">> >> }

OndemandTuningFiles ==
    { <<"/sys/devices/system/cpu/cpufreq/ondemand/boostfreq",
        <<"6", "9", "6", "0", "0", "0">> >>,
      <<"/sys/devices/system/cpu/cpufreq/ondemand/up_threshold",
        <<"7", "0">> >>,
      <<"/sys/devices/system/cpu/cpufreq/ondemand/sampling_rate",
        <<"5", "0", "0", "0", "0">> >> }

GpuTuningFiles ==
    { <<"/sys/module/mali/parameters/mali_boost_rate", <<"1", "2", "0", "0">> >>,
      <<"/sys/module/mali/parameters/mali_boost_duration", <<"5", "0", "0">> >> }

\* C5: sun4i_power_init with governor "interactive" writes exactly the five
\* interactive tuning files and the two GPU tuning files, each once and with
\* its value; with governor "ondemand", exactly the three on-demand tuning
\* files and the two GPU tuning files.
C5_InitWritesGovernorTuning ==
    last.op = "init"
        => /\ InitGovernorRead(last.events) = Interactive
                  => /\ WrittenPairs(last.events) =
                            InteractiveTuningFiles \cup GpuTuningFiles
                     /\ Len(WritesOf(last.events)) = 7
           /\ InitGovernorRead(last.events) = Ondemand
                  => /\ WrittenPairs(last.events) =
                            OndemandTuningFiles \cup GpuTuningFiles
                     /\ Len(WritesOf(last.events)) = 5

\* sun4i_power_init has run with governor "interactive".
C5_Witness ==
    /\ last.op = "init"
    /\ InitGovernorRead(last.events) = Interactive
    /\ Len(WritesOf(last.events)) = 7

\* C6: sun4i_power_init with a readable governor that is neither "interactive"
\* nor "ondemand" (a prefix of one, or one followed by more, included) writes
\* exactly the two GPU tuning files and caches the governor name.
C6_InitUnrecognizedGovernor ==
    (/\ last.op = "init"
     /\ InitGovernorRead(last.events) \notin {<<NUL>>, Interactive, Ondemand})
        => /\ WrittenPairs(last.events) = GpuTuningFiles
           /\ Len(WritesOf(last.events)) = 2
           /\ current_governor = InitGovernorRead(last.events)

\* sun4i_power_init has run with a governor name that "interactive" is a
\* proper prefix of.
C6_Witness ==
    /\ last.op = "init"
    /\ InitGovernorRead(last.events) = InteractiveX
    /\ current_governor = InteractiveX

\* The step ran sun4i_power_init and the governor file could not be read.
InitUnreadable(evs) ==
    \E i \in 1..Len(evs) : evs[i].kind = "log" /\ evs[i].path = "init"

\* C7: a run of sun4i_power_init that cannot read the governor, called by the
\* host or from boostpulse_open, sets boostpulse_warned, writes no tuning file,
\* leaves current_governor as it was, and returns.
C7_UnreadableSetsWarned ==
    [][(last'.op \in {"init", "retune"} /\ InitUnreadable(last'.events))
           => /\ boostpulse_warned' = 1
              /\ ~crashed'
              /\ WritesOf(last'.events) = <<>>
              /\ current_governor' = current_governor]_vars

\* The decimal text of the duration a boost hint carries: 1 when data is NULL.
DurationText(d) == IF d = 0 THEN <<"1">> ELSE Dec(d)

\* C8: a boost hint that got a handle writes the duration text to the handle,
\* and then makes exactly one write, of that same text, to the GPU boost-pulse
\* file, whether the first write succeeded or failed; a call returns without
\* it only when it got no handle.
C8_GpuGetsDurationText ==
    /\ last.op = "write"
           => /\ last.events[2].kind \in {"write", "write_failed"}
              /\ last.events[2].val = DurationText(last.data)
    /\ (last.op = "mali")
           => /\ last.returned
              /\ WrittenPairs(last.events) = {<<BOOSTPULSE_MALI, DurationText(last.data)>>}
              /\ Len(last.events) = 1
    /\ (last.returned /\ last.op = "return")
           => last.events[1].val < 0

\* C9, for a governor file that has not changed since boostpulse_open read it:
\* when the name read is not the cached name, sun4i_power_init runs (tuning
\* writes included) in the step before the open, and the cached name is then
\* the name read.
C9_RetunesOnAnyDifference ==
    [][\A t \in Threads :
          (/\ pc[t] = "retune" /\ pc'[t] = "open"
           /\ governor[t] # current_governor
           /\ scaling_governor_file.readable
           /\ StripTrailing(scaling_governor_file.text) = governor[t])
              => /\ HasEvent(last'.events, "init")
                 /\ GpuTuningFiles \subseteq WrittenPairs(last'.events)
                 /\ ~HasEvent(last'.events, "open")
                 /\ current_governor' = governor[t]]_vars

\* C10: no file is written by a thread that holds the lock, and boostpulse_fd
\* and boostpulse_warned are read and written only by a thread that holds it.
\* It is stated of the steps of power hints.
C10_LockDiscipline ==
    last.thread \in Threads
        => \A i \in 1..Len(last.events) :
               LET e == last.events[i]
               IN  /\ e.kind \in {"write", "write_failed"} => ~e.locked
                   /\ e.kind \in {"get_fd", "set_fd", "get_warned", "set_warned"}
                          => e.locked

\* C11: between two clearings of boostpulse_warned, which only the recovery of
\* a failed write makes, at most one "Error opening boostpulse" line is logged,
\* however many opens fail; once one is logged the flag is set, and the flag
\* is set after every failed open.
C11_OneLogAndWarned ==
    /\ seen.open_logs <= 1
    /\ seen.open_logs = 1 => boostpulse_warned = 1

C11_ClearedByRecoveryOnly ==
    /\ (boostpulse_warned = 1 /\ boostpulse_warned' = 0) => last'.op = "close"
    /\ (last'.op = "open" /\ boostpulse_fd' < 0) => boostpulse_warned' = 1

C11_OpenFailureLoggedOnce ==
    []C11_OneLogAndWarned /\ [][C11_ClearedByRecoveryOnly]_vars

\* An open of the boost-pulse file has failed again, after the failure that
\* was logged, and logged nothing.
C11_Witness ==
    /\ last.op = "open"
    /\ \E i \in 1..Len(last.events) :
           last.events[i].kind = "open" /\ last.events[i].val < 0
    /\ LogCount(last.events, "boostpulse") = 0
    /\ seen.open_logs = 1

\* C12: a power hint that is neither INTERACTION nor CPU_BOOST (VSYNC or any
\* other) returns at once and changes nothing: boostpulse_fd, boostpulse_warned,
\* current_governor, scaling_max_freq, the lock, the descriptors and the files
\* are as before, and it opens, reads and writes no file.
C12_OtherHintsChangeNothing ==
    [][(last'.op = "power_hint" /\ last'.arg \notin BoostHints)
           => /\ last'.returned
              /\ last'.events = <<>>
              /\ pc' = pc
              /\ UNCHANGED <<boostpulse_fd, boostpulse_warned, current_governor,
                             scaling_max_freq, lock, fdtable, crashed,
                             scaling_governor_file, scaling_max_freq_file>>]_vars

\* A VSYNC hint has returned while another thread is inside boostpulse_open,
\* holding the lock.
C12_Witness ==
    /\ last.op = "power_hint" /\ last.arg = "VSYNC" /\ last.returned
    /\ lock \in Threads \ {last.thread}
    /\ pc[last.thread] = "idle"

\* The characters get_scaling_governor trims.
IsLineEnd(c) == c = LF \/ c = CR

\* name is text without its maximal trailing run of '\n' and '\r': text is
\* name followed by such characters only, and name does not end with one.
IsTextWithoutLineEnds(name, text) ==
    /\ Len(name) <= Len(text)
    /\ \A i \in 1..Len(name) : name[i] = text[i]
    /\ \A i \in (Len(name) + 1)..Len(text) : IsLineEnd(text[i])
    /\ Len(name) > 0 => ~IsLineEnd(name[Len(name)])

\* The text the step read from the governor file.
GovernorTextRead(evs) ==
    evs[CHOOSE i \in 1..Len(evs) :
            evs[i].kind = "read" /\ evs[i].path = SCALING_GOVERNOR].val

\* C13: the governor name boostpulse_open gets from get_scaling_governor is
\* the text read from the governor file without its maximal trailing run of
\* '\n' and '\r'; every other character, a '\n' or '\r' followed by another
\* character included, is kept, and a text of such characters only gives the
\* empty name.
C13_NameIsTextWithoutLineEnds ==
    (last.op = "enter" /\ HasEvent(last.events, "read"))
        => LET text == GovernorTextRead(last.events)
               name == governor[last.thread]
           IN  /\ IsTextWithoutLineEnds(name, text)
               /\ (\A i \in 1..Len(text) : IsLineEnd(text[i])) => name = <<>>

\* A text with a '\n' in the middle and "\r\n" at its end has been read.
C13_Witness ==
    /\ last.op = "enter" /\ HasEvent(last.events, "read")
    /\ GovernorTextRead(last.events) = Interactive \o <<LF, CR, LF>>
    /\ governor[last.thread] = Interactive

\* The lock is free when no call is in progress, and a thread that has left
\* boostpulse_open, or the recovery, does not hold it.
LockReleased ==
    /\ (\A t \in Threads : pc[t] = "idle") => lock = NoThread
    /\ \A t \in Threads : pc[t] \in {"idle", "return", "write", "lock", "mali"} => lock # t

\* A call is in progress and no thread in a call can take a step.
CallsStuck ==
    /\ \E t \in Threads : pc[t] # "idle"
    /\ ~ENABLED (\E t \in Threads : CallStep(t))

\* sun4i_power_init inside boostpulse_open leaves the lock alone.
InitTakesNoLock ==
    \A t \in Threads : (pc[t] = "retune" /\ pc'[t] # "retune") => lock' = lock

\* C14: boostpulse_open releases the lock before it returns on every path, the
\* sun4i_power_init it runs never takes the lock, the lock is free whenever no
\* call is in progress, calls in progress are never stuck, and under fair
\* scheduling every power hint call of every thread returns.
C14_EveryCallReturns ==
    /\ [](LockReleased /\ ~CallsStuck)
    /\ [][InitTakesNoLock]_vars
    /\ \A t \in Threads : (pc[t] # "idle") ~> (pc[t] = "idle")

BoostpulseFiles == {BOOSTPULSE_INTERACTIVE, BOOSTPULSE_ONDEMAND, BOOSTPULSE_MALI}

\* The events write, or try to write, a boost-pulse file or a descriptor.
WritesBoostpulse(evs) ==
    \E i \in 1..Len(evs) :
        \/ evs[i].kind = "write" /\ evs[i].path \in BoostpulseFiles
        \/ evs[i].kind = "write_failed"

\* The step's open of a boost-pulse file failed.
OpenFailed(evs) ==
    \E i \in 1..Len(evs) : evs[i].kind = "open" /\ evs[i].val < 0

\* boostpulse_open has met one of the three failures and the handle is -1.
C15_NoHandleAfterFailure ==
    /\ (last.op = "enter" /\ HasEvent(last.events, "log")) => boostpulse_fd = -1
    /\ (last.op = "open" /\ ~HasEvent(last.events, "open")) => boostpulse_fd = -1
    /\ (last.op = "open" /\ OpenFailed(last.events)) => boostpulse_fd = -1
    /\ WritesBoostpulse(last.events) => last.op \in {"write", "mali"}

\* A call that gets no handle returns at once, having written nothing, with
\* boostpulse_fd still -1; a boost-pulse write is made only after a handle was
\* returned; and no file is opened for an unrecognized governor.
C15_NoHandleNoWrite ==
    \A t \in Threads :
        /\ (pc[t] = "unlock" /\ pc'[t] # "unlock") => boostpulse_fd' = boostpulse_fd
        /\ (pc[t] = "return" /\ pc'[t] # "return" /\ boostpulse_fd < 0)
               => /\ pc'[t] = "idle"
                  /\ last'.returned
                  /\ WritesOf(last'.events) = <<>>
                  /\ ~WritesBoostpulse(last'.events)
                  /\ boostpulse_fd' = -1
                  /\ OpenHandles = {}
        /\ (pc[t] # "write" /\ pc'[t] = "write")
               => pc[t] = "return" /\ boostpulse_fd >= 0
        /\ (pc[t] # "mali" /\ pc'[t] = "mali") => pc[t] \in {"write", "close"}
        /\ (pc[t] = "open" /\ pc'[t] # "open"
            /\ governor[t] \notin {Interactive, Ondemand})
               => /\ ~HasEvent(last'.events, "open")
                  /\ fdtable' = fdtable
                  /\ boostpulse_fd' = boostpulse_fd

\* C15 (calls following one another): when boostpulse_open yields no handle
\* (governor unreadable, governor neither "interactive" nor "ondemand", or
\* the open failed), the call writes to no CPU boost-pulse file and not to
\* the GPU boost-pulse file, and boostpulse_fd stays -1; for an unrecognized
\* governor no boost-pulse file is opened.
C15_NoHandleIsNoOp == []C15_NoHandleAfterFailure /\ [][C15_NoHandleNoWrite]_vars

\* A call has returned without a handle after its open failed.
C15_Witness ==
    /\ last.op = "return" /\ last.returned
    /\ boostpulse_fd = -1
    /\ boostpulse_warned = 1
    /\ current_governor = Ondemand
    /\ scaling_governor_file = [readable |-> TRUE, text |-> Ondemand \o <<LF>>]

\* C16: while the governor file stays unreadable, "Can't read scaling
\* governor." is logged by at most one power hint call between two clearings
\* of boostpulse_warned: the calls that fail after the flag was set log
\* nothing.
C16_UnreadableLoggedOnce == seen.governor_logs <= 1

\* C17: sun4i_power_set_interactive(on), for either value of on and whether
\* or not its read or write of the file fails, takes no lock and leaves
\* boostpulse_fd, boostpulse_warned and current_governor as they were; the
\* only file it reads or writes is scaling_max_freq, and the only state it
\* may change is the cached scaling_max_freq, and that only when on is 0.
C17_SetInteractiveFrame ==
    [][last'.op = "set_interactive"
          => /\ UNCHANGED <<lock, boostpulse_fd, boostpulse_warned, current_governor,
                            fdtable, scaling_governor_file, crashed, pc>>
             /\ \A i \in 1..Len(last'.events) :
                    /\ last'.events[i].path = SCALINGMAXFREQ
                    /\ ~last'.events[i].locked
             /\ last'.arg = 1
                    => /\ scaling_max_freq' = scaling_max_freq
                       /\ ~HasEvent(last'.events, "read")]_vars

\* A screen-off call whose read failed has run while a power hint that follows
\* a failed open is inside boostpulse_open, holding the lock.
C17_Witness ==
    /\ last.op = "set_interactive" /\ last.arg = 0
    /\ HasEvent(last.events, "log")
    /\ lock \in Threads
    /\ boostpulse_warned = 1

\* A boost-pulse write is made on a descriptor that is open on a boost-pulse
\* file: not on -1, not on a descriptor already closed.
C18_WriteOnOpenHandle ==
    last.op = "write"
        => /\ last.events[1].val \in Fds
           /\ last.events[2].path \in {BOOSTPULSE_INTERACTIVE, BOOSTPULSE_ONDEMAND}

\* The recovery of a failed write closes an open descriptor, not -1, and not
\* one opened after the write failed.
C18_CloseTheFailedHandle ==
    \A t \in Threads :
        (pc[t] = "close" /\ pc'[t] # "close")
            => /\ boostpulse_fd \in OpenHandles
               /\ ~opened_after[t]

\* C18: under any interleaving of power hints from several threads, the
\* duration is written only to the handle that is open at that moment, never
\* to -1 or to a handle another thread's recovery has closed, and the recovery
\* closes neither -1 nor a handle opened after the failed write.
C18_OnlyTheOpenHandle == []C18_WriteOnOpenHandle /\ [][C18_CloseTheFailedHandle]_vars

\* The governor active now: the name in the governor file.
ActiveGovernor == StripTrailing(scaling_governor_file.text)

\* The boost-pulse file of a governor.
BoostpulseFileOf(gov) ==
    IF gov = Interactive THEN BOOSTPULSE_INTERACTIVE
    ELSE IF gov = Ondemand THEN BOOSTPULSE_ONDEMAND
    ELSE "none"

\* The file the step's boost-pulse write, successful or failed, went to.
BoostWritePath(evs) ==
    evs[CHOOSE i \in 1..Len(evs) : evs[i].kind \in {"write", "write_failed"}].path

\* C19 as stated, for calls during which the governor does not change: every
\* boost-pulse write goes to the boost-pulse file of the governor active at
\* that moment, after the tuning writes for that governor, also when the
\* handle was cached from before a change of governor.
C19_WriteFollowsGovernor ==
    (last.op = "write" /\ tuning.steady[last.thread])
        => /\ BoostWritePath(last.events) = BoostpulseFileOf(ActiveGovernor)
           /\ ActiveGovernor \in tuning.tuned

\* C19 amended: a call that finds no handle cached, and during which the
\* governor does not change, writes to the boost-pulse file of the active
\* governor, after the tuning writes for that governor; a call that finds a
\* handle cached writes to one of the two boost-pulse files, the one the
\* handle was opened on, whatever the governor is now.
C19_FreshHandleFollowsGovernor ==
    last.op = "write"
        => /\ (tuning.fresh[last.thread] /\ tuning.steady[last.thread])
                  => /\ BoostWritePath(last.events) = BoostpulseFileOf(ActiveGovernor)
                     /\ ActiveGovernor \in tuning.tuned
           /\ ~tuning.fresh[last.thread]
                  => /\ BoostWritePath(last.events)
                            \in {BOOSTPULSE_INTERACTIVE, BOOSTPULSE_ONDEMAND}
                     /\ \E f \in Fds : fdtable[f] = BoostWritePath(last.events)

\* After a switch from "interactive" to "ondemand", a call that found no
\* handle has opened one and written to it.
C19_Witness ==
    /\ last.op = "write"
    /\ tuning.fresh[last.thread] /\ tuning.steady[last.thread]
    /\ ActiveGovernor = Ondemand
    /\ tuning.tuned = {Interactive, Ondemand}
    /\ BoostWritePath(last.events) = BOOSTPULSE_ONDEMAND

====
